---- MODULE Spec2Model ----
(***************************************************************************)
(* Transform algebra of regtools/regtools.py: Registration,                *)
(* MotionCorrection, NonLinearRegistration, NonLinearMotionCorrection,     *)
(* the @ operator (Python's binary-operator dispatch over __matmul__ and   *)
(* __rmatmul__), chain() and Transform.inverse(); the constructors of      *)
(* Registration and MotionCorrection on valid and invalid arguments; and   *)
(* despatch() of regtricks/application_helpers.py, which resamples the     *)
(* volumes of an image with a transform, one after the other or in a pool  *)
(* of worker processes.                                                    *)
(*                                                                         *)
(* Values.  Every Python value is a record with a "kind" field:            *)
(*   Registration              [kind, mat, src_spc, ref_spc]               *)
(*   MotionCorrection          [kind, transforms]                          *)
(*   NonLinearRegistration     [kind, fcoeffs, src_spc, ref_spc,           *)
(*   NonLinearMotionCorrection        premat, postmat]                     *)
(*   ndarray (bare 4x4)        [kind, mat]                                 *)
(*   tuple                     [kind, items]                               *)
(*   None                      [kind]                                      *)
(*   a raised exception        [kind |-> "exc", type]                      *)
(* A 4x4 array is a tuple of four rows of four integers.  The pre- and     *)
(* post-matrices of the non-linear classes are not type-checked by the     *)
(* code, so they are tagged: [t |-> "ndarray", m], [t |-> "list", items],  *)
(* [t |-> "stack", items] (an ndarray of shape (N,...,4,4)), [t |-> "None"]*)
(* Matrices are integer matrices of determinant 1 or -1, so that           *)
(* numpy.linalg.inv is exact.                                              *)
(***************************************************************************)
EXTENDS Integers, Sequences, FiniteSets, TLC

VARIABLES args,      \* the arguments of the call
          ret,       \* what the call returned or raised
          op,        \* the call made, and inside despatch the position reached
          cache,     \* the cache prepare_cache keeps on the transform
          calls,     \* the calls of prepare_cache and reset_cache so far
          todo,      \* worker_args: the indices of the volumes not yet handed out
          running,   \* the indices of the volumes the pool's workers are busy with
          resamp,    \* the resampled volumes by index, None where there is none yet
          error,     \* the first exception a pool worker sent back
          completed  \* the indices of the volumes in the order they were finished

despatchVars == <<cache, calls, todo, running, resamp, error, completed>>

vars == <<args, ret, op, cache, calls, todo, running, resamp, error, completed>>

MaxSeriesLen == 2

MaxChainLen == 3

None == "None"

\* despatch has not been entered: no cache, no volume handed out
DespatchIdle == /\ cache = None
                /\ calls = <<>>
                /\ todo = <<>>
                /\ running = {}
                /\ resamp = <<>>
                /\ error = [kind |-> "None"]
                /\ completed = <<>>

(***************************************************************************)
(* numpy on 4x4 arrays                                                     *)
(***************************************************************************)
I4 == << <<1,0,0,0>>, <<0,1,0,0>>, <<0,0,1,0>>, <<0,0,0,1>> >>

Dot(A, B, i, j) == A[i][1]*B[1][j] + A[i][2]*B[2][j] + A[i][3]*B[3][j] + A[i][4]*B[4][j]

\* A @ B for two 4x4 arrays
MatMul(A, B) == [i \in 1..4 |-> [j \in 1..4 |-> Dot(A, B, i, j)]]

Others(i) == IF i = 1 THEN <<2,3,4>> ELSE IF i = 2 THEN <<1,3,4>>
             ELSE IF i = 3 THEN <<1,2,4>> ELSE <<1,2,3>>

Det2(M, r1, r2, c1, c2) == M[r1][c1]*M[r2][c2] - M[r1][c2]*M[r2][c1]

Det3(M, r, c) ==
    M[r[1]][c[1]] * Det2(M, r[2], r[3], c[2], c[3])
  - M[r[1]][c[2]] * Det2(M, r[2], r[3], c[1], c[3])
  + M[r[1]][c[3]] * Det2(M, r[2], r[3], c[1], c[2])

Sign(i, j) == IF (i + j) % 2 = 0 THEN 1 ELSE -1

Cofactor(M, i, j) == Sign(i, j) * Det3(M, Others(i), Others(j))

RECURSIVE DetFrom(_, _)
DetFrom(M, j) == IF j > 4 THEN 0 ELSE M[1][j] * Cofactor(M, 1, j) + DetFrom(M, j + 1)

Det(M) == DetFrom(M, 1)

\* Division that is exact for the matrices of the model (determinant 1 or -1).
ExactDiv(n, d) == IF (n >= 0) = (d > 0) THEN (IF n >= 0 THEN n ELSE -n) \div (IF d > 0 THEN d ELSE -d)
                  ELSE -((IF n >= 0 THEN n ELSE -n) \div (IF d > 0 THEN d ELSE -d))

Exc(type, msg) == [kind |-> "exc", type |-> type, msg |-> msg]

IsExc(v) == v.kind = "exc"

\* np.linalg.inv: the inverse (adjugate over determinant), or LinAlgError for a
\* singular matrix.
LinalgInv(M) ==
    LET d == Det(M)
    IN IF d = 0 THEN Exc("LinAlgError", "Singular matrix")
       ELSE [kind |-> "ndarray",
             mat |-> [i \in 1..4 |-> [j \in 1..4 |-> ExactDiv(Cofactor(M, j, i), d)]]]

\* src2ref.shape
Shape(M) == IF Len(M) = 0 THEN <<0>> ELSE <<Len(M), Len(M[1])>>


(***************************************************************************)
(* Python lists                                                            *)
(***************************************************************************)
RECURSIVE FirstExcFrom(_, _)
FirstExcFrom(s, i) == IF i > Len(s) THEN [kind |-> "None"]
                      ELSE IF IsExc(s[i]) THEN s[i] ELSE FirstExcFrom(s, i + 1)

\* The exception that ends a loop or comprehension building s, None if there is none.
FirstExc(s) == FirstExcFrom(s, 1)

Repeat(x, n) == [i \in 1..n |-> x]

(***************************************************************************)
(* Pre- and post-matrix values                                             *)
(***************************************************************************)
NdArr(M) == [t |-> "ndarray", m |-> M]

PyList(xs) == [t |-> "list", items |-> xs]

NdStack(xs) == [t |-> "stack", items |-> xs]

PyNone == [t |-> "None"]

IsErr(x) == "kind" \in DOMAIN x

\* x @ M for a 4x4 ndarray M.  A list has no __matmul__, so ndarray.__rmatmul__
\* converts it with np.asarray and np.matmul broadcasts over the leading axes.
RECURSIVE NpMatmulRight(_, _)
NpMatmulRight(x, M) ==
    IF x.t = "ndarray" THEN NdArr(MatMul(x.m, M))
    ELSE IF x.t = "None" THEN Exc("TypeError", "unsupported operand type(s) for @")
    ELSE IF x.items = <<>> THEN Exc("ValueError", "matmul: mismatch in core dimension")
    ELSE LET ys == [i \in 1..Len(x.items) |-> NpMatmulRight(x.items[i], M)]
         IN NdStack(ys)

\* M @ x for a 4x4 ndarray M.
RECURSIVE NpMatmulLeft(_, _)
NpMatmulLeft(M, x) ==
    IF x.t = "ndarray" THEN NdArr(MatMul(M, x.m))
    ELSE IF x.t = "None" THEN Exc("TypeError", "unsupported operand type(s) for @")
    ELSE IF x.items = <<>> THEN Exc("ValueError", "matmul: mismatch in core dimension")
    ELSE LET ys == [i \in 1..Len(x.items) |-> NpMatmulLeft(M, x.items[i])]
         IN NdStack(ys)

(***************************************************************************)
(* Voxel grids (image_space.ImageSpace): a grid is named by a string; the  *)
(* absent grid is None.                                                    *)
(***************************************************************************)
Grids == {"g1", "g2"}

\* ImageSpace(x) for an x that is no ImageSpace: None is neither a path nor an image.
ImageSpaceRejects(x) == x = None

FSL2world(g) == IF g = "g1" THEN << <<1,0,0,2>>, <<0,1,0,0>>, <<0,0,1,0>>, <<0,0,0,1>> >>
                ELSE << <<-1,0,0,3>>, <<0,1,0,0>>, <<0,0,1,0>>, <<0,0,0,1>> >>

world2FSL(g) == IF g = "g1" THEN << <<1,0,0,-2>>, <<0,1,0,0>>, <<0,0,1,0>>, <<0,0,0,1>> >>
                ELSE << <<-1,0,0,3>>, <<0,1,0,0>>, <<0,0,1,0>>, <<0,0,0,1>> >>

(***************************************************************************)
(* Constructors                                                            *)
(***************************************************************************)
\* str.lower() on the convention tags of the model
Lower(c) == IF c \in {"fsl", "FSL"} THEN "fsl"
            ELSE IF c \in {"world", "WORLD"} THEN "world" ELSE c

\* Registration.__init__ (src2ref an array; src and ref ImageSpace objects or None)
Registration(src2ref, src, ref, convention) ==
    IF Shape(src2ref) # <<4,4>> \/ src2ref[4] # <<0,0,0,1>>
    THEN Exc("RuntimeError", "src2ref must be a 4x4 affine matrix")
    ELSE LET given   == src # None /\ ref # None
             src_spc == IF given THEN src ELSE None
             ref_spc == IF given THEN ref ELSE None
             conv    == IF convention = "" THEN (IF given THEN "fsl" ELSE "world")
                        ELSE convention
         IN IF Lower(conv) = "fsl"
            THEN IF ~given
                 THEN Exc("AttributeError", "NoneType has no attribute FSL2world")
                 ELSE [kind |-> "Registration",
                       mat |-> MatMul(MatMul(FSL2world(ref_spc), src2ref), world2FSL(src_spc)),
                       src_spc |-> src_spc, ref_spc |-> ref_spc]
            ELSE IF Lower(conv) = "world"
            THEN [kind |-> "Registration", mat |-> src2ref,
                  src_spc |-> src_spc, ref_spc |-> ref_spc]
            ELSE Exc("RuntimeError", "Unrecognised convention")

\* MotionCorrection.__init__ (mats a list of arrays)
MotionCorrection(mats, src, ref, convention) ==
    LET conv == IF convention \in {None, ""}
                THEN (IF src # None THEN "fsl" ELSE "world")
                ELSE convention
        ts   == [i \in 1..Len(mats) |-> Registration(mats[i], src, ref, conv)]
    IN IF IsExc(FirstExc(ts)) THEN FirstExc(ts)
       ELSE [kind |-> "MotionCorrection", transforms |-> ts]

\* FNIRTCoefficients.__init__
FNIRTCoefficients(coeffs, src, ref) ==
    IF ImageSpaceRejects(ref) \/ ImageSpaceRejects(src)
    THEN Exc("ImageSpaceError", "cannot make an ImageSpace of None")
    ELSE [coefficients |-> coeffs, src_spc |-> src, ref_spc |-> ref]

\* NonLinearRegistration.__init__ (premat and postmat arrays)
NonLinearRegistration(coefficients, src, ref, premat, postmat) ==
    IF ImageSpaceRejects(ref) \/ ImageSpaceRejects(src)
    THEN Exc("ImageSpaceError", "cannot make an ImageSpace of None")
    ELSE [kind |-> "NonLinearRegistration",
          fcoeffs |-> FNIRTCoefficients(coefficients, src, ref),
          src_spc |-> src, ref_spc |-> ref,
          premat |-> NdArr(premat), postmat |-> NdArr(postmat)]

\* NonLinearRegistration._manual_construct
ManualConstruct(fcoeffs, src, ref, premat, postmat) ==
    [kind |-> "NonLinearRegistration", fcoeffs |-> fcoeffs,
     src_spc |-> src, ref_spc |-> ref, premat |-> premat, postmat |-> postmat]

\* NonLinearMotionCorrection.__init__ (premats, postmats: a list or None)
NonLinearMotionCorrection(fcoeffs, src, ref, premats, postmats) ==
    IF ImageSpaceRejects(ref) \/ ImageSpaceRejects(src)
    THEN Exc("ImageSpaceError", "cannot make an ImageSpace of None")
    ELSE IF premats.t # "list" /\ postmats.t # "list"
    THEN Exc("AssertionError", "")
    ELSE IF premats.t = "None" \/ premats.items = <<>>
    THEN IF postmats.t = "None"
         THEN Exc("TypeError", "object of type NoneType has no len()")
         ELSE [kind |-> "NonLinearMotionCorrection", fcoeffs |-> fcoeffs,
               src_spc |-> src, ref_spc |-> ref,
               premat |-> PyList(Repeat(NdArr(I4), Len(postmats.items))),
               postmat |-> postmats]
    ELSE IF postmats.t = "list" /\ postmats.items # <<>>
    THEN Exc("AssertionError", "")
    ELSE [kind |-> "NonLinearMotionCorrection", fcoeffs |-> fcoeffs,
          src_spc |-> src, ref_spc |-> ref,
          premat |-> premats,
          postmat |-> PyList(Repeat(NdArr(I4), Len(premats.items)))]

(***************************************************************************)
(* Properties of the classes                                               *)
(***************************************************************************)
IsNonLinear(x) == x.kind \in {"NonLinearRegistration", "NonLinearMotionCorrection"}

IsTransform(x) == x.kind \in {"Registration", "MotionCorrection",
                              "NonLinearRegistration", "NonLinearMotionCorrection"}

\* MotionCorrection.src2ref_world
Src2refWorld(mc) == [i \in 1..Len(mc.transforms) |-> mc.transforms[i].mat]

\* Transform.__len__ and NonLinearMotionCorrection.__len__
PyLen(x) ==
    IF x.kind = "Registration" THEN [kind |-> "int", n |-> 1]
    ELSE IF x.kind = "MotionCorrection" THEN [kind |-> "int", n |-> Len(x.transforms)]
    ELSE IF x.kind = "NonLinearMotionCorrection"
    THEN (IF x.premat.t \in {"list", "stack"} THEN [kind |-> "int", n |-> Len(x.premat.items)]
          ELSE IF x.premat.t = "ndarray" THEN [kind |-> "int", n |-> 4]
          ELSE Exc("TypeError", "object of type NoneType has no len()"))
    ELSE Exc("AttributeError", "no attribute src2ref_world")

\* cast_potential_array
CastPotentialArray(arr) ==
    IF arr.kind = "ndarray"
    THEN IF Shape(arr.mat) # <<4,4>> THEN Exc("AssertionError", "")
         ELSE Registration(arr.mat, None, None, "")
    ELSE arr

(***************************************************************************)
(* __matmul__ and __rmatmul__ of each class                                *)
(***************************************************************************)
\* NonLinearRegistration.__matmul__ with the affine put after the field: the
\* Registration branch changes the post-matrix instead of the pre-matrix
NonLinearRegistration__matmul__Post(self, other) ==
    IF other.kind = "Registration"
    THEN LET post == NpMatmulRight(self.postmat, other.mat)
         IN IF IsErr(post) THEN post
            ELSE ManualConstruct(self.fcoeffs, other.src_spc, self.ref_spc, self.premat, post)
    ELSE IF other.kind = "MotionCorrection"
    THEN LET ms == Src2refWorld(other)
             premats == [i \in 1..Len(ms) |-> NpMatmulRight(self.premat, ms[i])]
         IN IF \E i \in 1..Len(ms) : IsErr(premats[i])
            THEN premats[CHOOSE i \in 1..Len(ms) :
                            IsErr(premats[i]) /\ \A j \in 1..(i-1) : ~IsErr(premats[j])]
            ELSE IF other.transforms = <<>>
            THEN Exc("IndexError", "list index out of range")
            ELSE NonLinearMotionCorrection(self.fcoeffs, other.transforms[1].src_spc,
                                           self.ref_spc, PyList(premats), PyNone)
    ELSE Exc("NotImplementedError", "")

\* NonLinearRegistration.__matmul__ (inherited by NonLinearMotionCorrection)
NonLinearRegistration__matmul__(self, other) ==
    IF other.kind = "Registration"
    THEN LET pre == NpMatmulRight(self.premat, other.mat)
         IN IF IsErr(pre) THEN pre
            ELSE ManualConstruct(self.fcoeffs, other.src_spc, self.ref_spc, pre, self.postmat)
    ELSE IF other.kind = "MotionCorrection"
    THEN LET ms == Src2refWorld(other)
             premats == [i \in 1..Len(ms) |-> NpMatmulRight(self.premat, ms[i])]
         IN IF \E i \in 1..Len(ms) : IsErr(premats[i])
            THEN premats[CHOOSE i \in 1..Len(ms) :
                            IsErr(premats[i]) /\ \A j \in 1..(i-1) : ~IsErr(premats[j])]
            ELSE IF other.transforms = <<>>
            THEN Exc("IndexError", "list index out of range")
            ELSE NonLinearMotionCorrection(self.fcoeffs, other.transforms[1].src_spc,
                                           self.ref_spc, PyList(premats), PyNone)
    ELSE Exc("NotImplementedError", "")

\* NonLinearRegistration.__rmatmul__ (inherited by NonLinearMotionCorrection)
NonLinearRegistration__rmatmul__(self, other) ==
    IF other.kind = "Registration"
    THEN LET post == NpMatmulLeft(other.mat, self.postmat)
         IN IF IsErr(post) THEN post
            ELSE ManualConstruct(self.fcoeffs, self.src_spc, other.ref_spc, self.premat, post)
    ELSE [kind |-> "None"]

\* MotionCorrection.__promote_registration without the repetition len(self) times
PromoteRegistrationOnce(self, reg) ==
    MotionCorrection(<<reg.mat>>, reg.src_spc, reg.ref_spc, "world")

\* MotionCorrection.__promote_registration
PromoteRegistration(self, reg) ==
    MotionCorrection(Repeat(reg.mat, PyLen(self).n), reg.src_spc, reg.ref_spc, "world")

\* MotionCorrection.__matmul__
MotionCorrection__matmul__(self, other0) ==
    LET other1 == CastPotentialArray(other0)
    IN IF IsExc(other1) THEN other1
       ELSE IF IsNonLinear(other1) THEN NonLinearRegistration__matmul__(other1, self)
       ELSE LET other == IF other1.kind = "Registration"
                         THEN PromoteRegistration(self, other1) ELSE other1
            IN IF IsExc(PyLen(other)) THEN PyLen(other)
               ELSE IF PyLen(self).n # PyLen(other).n
               THEN Exc("RuntimeError", "MotionCorrections must be of equal length")
               ELSE LET m1 == Src2refWorld(self)
                        m2 == Src2refWorld(other)
                        world_mats == [i \in 1..Len(m1) |-> MatMul(m1[i], m2[i])]
                    IN IF other.transforms = <<>> \/ self.transforms = <<>>
                       THEN Exc("IndexError", "list index out of range")
                       ELSE MotionCorrection(world_mats, other.transforms[1].src_spc,
                                             self.transforms[1].ref_spc, "world")

\* MotionCorrection.__rmatmul__; its last line, other @ self, has a
\* MotionCorrection on the left and so runs MotionCorrection.__matmul__.
MotionCorrection__rmatmul__(self, other0) ==
    LET other1 == CastPotentialArray(other0)
    IN IF IsExc(other1) THEN other1
       ELSE IF IsNonLinear(other1) THEN NonLinearRegistration__matmul__(other1, self)
       ELSE LET other == IF other1.kind = "Registration"
                         THEN PromoteRegistration(self, other1) ELSE other1
            IN MotionCorrection__matmul__(other, self)

\* Registration.__matmul__ with the product taken in the other order
Registration__matmul__Swapped(self, other0) ==
    LET other == CastPotentialArray(other0)
    IN IF IsExc(other) THEN other
       ELSE IF other.kind = "MotionCorrection" \/ IsNonLinear(other)
       THEN Exc("TypeError", "__rmatmul__() takes 2 positional arguments but 3 were given")
       ELSE Registration(MatMul(other.mat, self.mat), other.src_spc, self.ref_spc, "world")

\* Registration.__matmul__.  The promotion branch calls other.__rmatmul__(self, other):
\* three arguments for a method of two, which Python refuses with a TypeError.
Registration__matmul__(self, other0) ==
    LET other == CastPotentialArray(other0)
    IN IF IsExc(other) THEN other
       ELSE IF other.kind = "MotionCorrection" \/ IsNonLinear(other)
       THEN Exc("TypeError", "__rmatmul__() takes 2 positional arguments but 3 were given")
       ELSE Registration(MatMul(self.mat, other.mat), other.src_spc, self.ref_spc, "world")

\* Registration.__rmatmul__; Python calls it only for a left operand without a
\* usable __matmul__ (a bare array), so its last line, other @ self, has a
\* Registration on both sides.
Registration__rmatmul__(self, other0) ==
    LET other == CastPotentialArray(other0)
    IN IF IsExc(other) THEN other
       ELSE IF other.kind = "MotionCorrection" THEN MotionCorrection__matmul__(other, self)
       ELSE IF IsNonLinear(other) THEN NonLinearRegistration__matmul__(other, self)
       ELSE Registration__matmul__(other, self)

(***************************************************************************)
(* a @ b: Python's dispatch.  The reflected method of b runs first when    *)
(* type(b) is a proper subclass of type(a) that overrides it               *)
(* (MotionCorrection under Registration); otherwise a.__matmul__(b) runs,  *)
(* and an exception it raises propagates.  A bare array on the left        *)
(* declines (Transform.__array_ufunc__ is None) and b.__rmatmul__ runs.    *)
(***************************************************************************)
Matmul(a, b) ==
    IF a.kind = "Registration" /\ b.kind = "MotionCorrection"
    THEN MotionCorrection__rmatmul__(b, a)
    ELSE IF a.kind = "Registration" THEN Registration__matmul__(a, b)
    ELSE IF a.kind = "MotionCorrection" THEN MotionCorrection__matmul__(a, b)
    ELSE IF IsNonLinear(a) THEN NonLinearRegistration__matmul__(a, b)
    ELSE IF b.kind = "Registration" THEN Registration__rmatmul__(b, a)
    ELSE IF b.kind = "MotionCorrection" THEN MotionCorrection__rmatmul__(b, a)
    ELSE IF IsNonLinear(b) THEN NonLinearRegistration__rmatmul__(b, a)
    ELSE [kind |-> "ndarray", mat |-> MatMul(a.mat, b.mat)]

(***************************************************************************)
(* chain and inverse                                                       *)
(***************************************************************************)
\* the loop of chain: for r in args[2:]: chained = r @ chained
RECURSIVE ChainLoop(_, _, _)
ChainLoop(as, i, chained) ==
    IF i > Len(as) \/ IsExc(chained) THEN chained
    ELSE ChainLoop(as, i + 1, Matmul(as[i], chained))

\* chain(*args), for one argument or more
Chain(as) ==
    IF Len(as) = 1 THEN [kind |-> "tuple", items |-> as]
    ELSE IF \E i \in 1..Len(as) : ~IsTransform(as[i])
    THEN Exc("RuntimeError", "Each item in sequence must be a Registration")
    ELSE ChainLoop(as, 3, Matmul(as[2], as[1]))

\* Transform.inverse; ref2src_world is read before ref_spc and src_spc
Inverse(self) ==
    IF self.kind = "Registration"
    THEN LET inv == LinalgInv(self.mat)
         IN IF IsExc(inv) THEN inv
            ELSE Registration(inv.mat, self.ref_spc, self.src_spc, "world")
    ELSE IF self.kind = "MotionCorrection"
    THEN LET invs == [i \in 1..Len(self.transforms) |-> LinalgInv(self.transforms[i].mat)]
         IN IF IsExc(FirstExc(invs)) THEN FirstExc(invs)
            ELSE IF self.transforms = <<>>
            THEN Exc("IndexError", "list index out of range")
            ELSE MotionCorrection([i \in 1..Len(invs) |-> invs[i].mat],
                                  self.transforms[1].ref_spc,
                                  self.transforms[1].src_spc, "world")
    ELSE Exc("AttributeError", "no attribute ref2src_world")

(***************************************************************************)
(* The objects the operations are called with                              *)
(***************************************************************************)
T1 == << <<1,0,0,1>>, <<0,1,0,0>>, <<0,0,1,0>>, <<0,0,0,1>> >>

R90 == << <<0,-1,0,0>>, <<1,0,0,0>>, <<0,0,1,0>>, <<0,0,0,1>> >>

Mats == {I4, T1, R90}

SeriesMats == {T1, R90}

GridArgs == {<<None, None>>, <<"g1", "g2">>, <<"g2", "g1">>}

Fields == {"warp1", "warp2"}

MatLists(lo) == UNION {[1..n -> SeriesMats] : n \in lo..MaxSeriesLen}

Tagged(ms) == PyList([i \in 1..Len(ms) |-> NdArr(ms[i])])

Registrations ==
    {Registration(M, g[1], g[2], c) : M \in Mats, g \in GridArgs, c \in {"world", ""}}

MotionCorrections ==
    {MotionCorrection(ms, g[1], g[2], "world") : ms \in MatLists(0), g \in GridArgs}

NonLinearRegistrations ==
    {NonLinearRegistration(f, g[1], g[2], pre, post) :
        f \in Fields, g \in GridArgs \ {<<None, None>>}, pre \in {I4, T1}, post \in {I4, R90}}

NonLinearMotionCorrections ==
    {NonLinearMotionCorrection(FNIRTCoefficients("warp1", "g1", "g2"), "g1", "g2",
                               Tagged(ms), PyNone) : ms \in MatLists(1)}
    \cup
    {NonLinearMotionCorrection(FNIRTCoefficients("warp1", "g1", "g2"), "g1", "g2",
                               PyNone, Tagged(ms)) : ms \in MatLists(1)}

Arrays == {[kind |-> "ndarray", mat |-> M] : M \in Mats}

Operands == Registrations \cup MotionCorrections \cup NonLinearRegistrations
            \cup NonLinearMotionCorrections \cup Arrays

\* the objects of the chains of three arguments and more
ChainOperands ==
    { Registration(T1, "g1", "g2", "world"),
      Registration(R90, None, None, "world"),
      Registration(T1, "g2", "g1", "world"),
      MotionCorrection(<<T1, R90>>, "g2", "g1", "world"),
      NonLinearRegistration("warp1", "g1", "g2", T1, R90),
      NonLinearMotionCorrection(FNIRTCoefficients("warp1", "g1", "g2"), "g1", "g2",
                                Tagged(<<R90, T1>>), PyNone) }

ArgLists == {<<x>> : x \in Operands}
            \cup {<<x, y>> : x \in Operands, y \in Operands}
            \cup UNION {[1..n -> ChainOperands] : n \in 3..MaxChainLen}

(***************************************************************************)
(* The state machine: one call on the argument list, and inverse() again   *)
(* on the result of inverse().  No method assigns to a field of an         *)
(* argument, so args never changes.                                        *)
(***************************************************************************)
Init == /\ args \in ArgLists
        /\ ret = [kind |-> "None"]
        /\ op = "init"
        /\ DespatchIdle

\* args[1] @ args[2]
ComposeCall == /\ op = "init"
               /\ Len(args) = 2
               /\ ret' = Matmul(args[1], args[2])
               /\ op' = "compose"
               /\ UNCHANGED <<args, despatchVars>>

\* chain(*args)
ChainCall == /\ op = "init"
             /\ ret' = Chain(args)
             /\ op' = "chain"
             /\ UNCHANGED <<args, despatchVars>>

\* args[1].inverse()
InverseCall == /\ op = "init"
               /\ Len(args) = 1
               /\ IsTransform(args[1])
               /\ ret' = Inverse(args[1])
               /\ op' = "inverse"
               /\ UNCHANGED <<args, despatchVars>>

\* args[1].inverse().inverse()
InverseAgain == /\ op = "inverse"
                /\ IsTransform(ret)
                /\ ret' = Inverse(ret)
                /\ op' = "inverse.inverse"
                /\ UNCHANGED <<args, despatchVars>>

Next == ComposeCall \/ ChainCall \/ InverseCall \/ InverseAgain

Spec == Init /\ [][Next]_vars

(***************************************************************************)
(* Properties                                                              *)
(***************************************************************************)
\* the call just made was args[1] @ args[2] on operands of these two classes
Composed(k1, k2) == op = "compose" /\ args[1].kind = k1 /\ args[2].kind = k2

C2_ComposeAffineWithSeries ==
    /\ (Composed("Registration", "MotionCorrection") /\ Len(args[2].transforms) >= 1) =>
          /\ ret.kind = "MotionCorrection"
          /\ Len(ret.transforms) = Len(args[2].transforms)
          /\ \A i \in 1..Len(args[2].transforms) :
                ret.transforms[i].mat = MatMul(args[1].mat, args[2].transforms[i].mat)
    /\ (Composed("MotionCorrection", "Registration") /\ Len(args[1].transforms) >= 1) =>
          /\ ret.kind = "MotionCorrection"
          /\ Len(ret.transforms) = Len(args[1].transforms)
          /\ \A i \in 1..Len(args[1].transforms) :
                ret.transforms[i].mat = MatMul(args[1].transforms[i].mat, args[2].mat)

C2_Witness ==
    /\ Composed("Registration", "MotionCorrection")
    /\ args[1].mat = R90
    /\ Src2refWorld(args[2]) = <<T1, R90>>
    /\ ret.kind = "MotionCorrection"
    /\ Src2refWorld(ret) = << << <<0,-1,0,0>>, <<1,0,0,1>>, <<0,0,1,0>>, <<0,0,0,1>> >>,
                              << <<-1,0,0,0>>, <<0,-1,0,0>>, <<0,0,1,0>>, <<0,0,0,1>> >> >>

\* C3: two MotionCorrections of equal length N compose to a MotionCorrection of
\* length N with the matrices S1[i] @ S2[i]; two of unequal length raise the
\* length-mismatch error.
C3_ComposeSeries ==
    Composed("MotionCorrection", "MotionCorrection") =>
        IF Len(args[1].transforms) = Len(args[2].transforms)
        THEN /\ ret.kind = "MotionCorrection"
             /\ Len(ret.transforms) = Len(args[1].transforms)
             /\ \A i \in 1..Len(args[1].transforms) :
                   ret.transforms[i].mat = MatMul(args[1].transforms[i].mat,
                                                  args[2].transforms[i].mat)
        ELSE ret = Exc("RuntimeError", "MotionCorrections must be of equal length")

\* the result of W @ A for a NonLinearRegistration W and a Registration A
ComposedNonLinearAffine ==
    Composed("NonLinearRegistration", "Registration") =>
        /\ ret.kind = "NonLinearRegistration"
        /\ ret.premat = NdArr(MatMul(args[1].premat.m, args[2].mat))
        /\ ret.fcoeffs = args[1].fcoeffs
        /\ ret.postmat = args[1].postmat
        /\ ret.src_spc = args[2].src_spc
        /\ ret.ref_spc = args[1].ref_spc

\* C4: a NonLinearRegistration W composed with a Registration A on the right is
\* a NonLinearRegistration with the pre-matrix W.premat @ A, the field and the
\* post-matrix of W, the source grid of A and the reference grid of W; no call
\* changes its operands.
C4_ComposeNonLinearAffine == []ComposedNonLinearAffine /\ [][args' = args]_vars

C4_Witness ==
    /\ Composed("NonLinearRegistration", "Registration")
    /\ args[1] = NonLinearRegistration("warp2", "g1", "g2", T1, R90)
    /\ args[2] = [kind |-> "Registration", mat |-> R90, src_spc |-> "g2", ref_spc |-> "g1"]
    /\ ret.premat = NdArr(<< <<0,-1,0,1>>, <<1,0,0,0>>, <<0,0,1,0>>, <<0,0,0,1>> >>)
    /\ ret.postmat = NdArr(R90)
    /\ ret.src_spc = "g2"

\* C5: a Registration A composed with a NonLinearRegistration W on the right
\* succeeds and is a NonLinearRegistration with the post-matrix A @ W.postmat,
\* the pre-matrix, field and source grid of W and the reference grid of A.
C5_ComposeAffineNonLinear ==
    Composed("Registration", "NonLinearRegistration") =>
        /\ ret.kind = "NonLinearRegistration"
        /\ ret.postmat = NdArr(MatMul(args[1].mat, args[2].postmat.m))
        /\ ret.premat = args[2].premat
        /\ ret.fcoeffs = args[2].fcoeffs
        /\ ret.src_spc = args[2].src_spc
        /\ ret.ref_spc = args[1].ref_spc

\* C6, for a series of length N >= 1 that has grids: a NonLinearRegistration W
\* composed with a MotionCorrection S of length N is a NonLinearMotionCorrection
\* of length N with the pre-matrices W.premat @ S[i], every post-matrix equal
\* to W.postmat, and the field of W.
C6_ComposeNonLinearSeries ==
    (/\ Composed("NonLinearRegistration", "MotionCorrection")
     /\ Len(args[2].transforms) >= 1
     /\ args[2].transforms[1].src_spc # None) =>
        /\ ret.kind = "NonLinearMotionCorrection"
        /\ ret.premat.t = "list" /\ ret.postmat.t = "list"
        /\ Len(ret.premat.items) = Len(args[2].transforms)
        /\ Len(ret.postmat.items) = Len(args[2].transforms)
        /\ \A i \in 1..Len(args[2].transforms) :
              /\ ret.premat.items[i] = NdArr(MatMul(args[1].premat.m, args[2].transforms[i].mat))
              /\ ret.postmat.items[i] = args[1].postmat
        /\ ret.fcoeffs = args[1].fcoeffs

\* C7: a NonLinearMotionCorrection Q of length N composed with a Registration A
\* on either side is a NonLinearMotionCorrection of length N: Q @ A has the
\* pre-matrices Q.premat[i] @ A, A @ Q has the post-matrices A @ Q.postmat[i],
\* and the other matrices and the field are those of Q.
C7_ComposeNonLinearSeriesAffine ==
    /\ Composed("NonLinearMotionCorrection", "Registration") =>
          /\ ret.kind = "NonLinearMotionCorrection"
          /\ ret.premat.t = "list"
          /\ Len(ret.premat.items) = Len(args[1].premat.items)
          /\ \A i \in 1..Len(args[1].premat.items) :
                ret.premat.items[i] = NdArr(MatMul(args[1].premat.items[i].m, args[2].mat))
          /\ ret.postmat = args[1].postmat
          /\ ret.fcoeffs = args[1].fcoeffs
    /\ Composed("Registration", "NonLinearMotionCorrection") =>
          /\ ret.kind = "NonLinearMotionCorrection"
          /\ ret.postmat.t = "list"
          /\ Len(ret.postmat.items) = Len(args[2].postmat.items)
          /\ \A i \in 1..Len(args[2].postmat.items) :
                ret.postmat.items[i] = NdArr(MatMul(args[1].mat, args[2].postmat.items[i].m))
          /\ ret.premat = args[2].premat
          /\ ret.fcoeffs = args[2].fcoeffs

\* C3 and C10 on series that have a first element (these hold)
NonEmptySeries == \A i \in 1..Len(args) :
                     args[i].kind = "MotionCorrection" => Len(args[i].transforms) >= 1

C3_ComposeNonEmptySeries == NonEmptySeries => C3_ComposeSeries

\* src_spc and ref_spc of a transform, None for a series without a first element
SrcSpc(x) == IF x.kind = "MotionCorrection"
             THEN (IF x.transforms = <<>> THEN None ELSE x.transforms[1].src_spc)
             ELSE x.src_spc

RefSpc(x) == IF x.kind = "MotionCorrection"
             THEN (IF x.transforms = <<>> THEN None ELSE x.transforms[1].ref_spc)
             ELSE x.ref_spc

\* compose(a, b) of the specification is a @ b; an argument that raised has
\* already ended the evaluation
Compose(a, b) == IF IsExc(b) THEN b ELSE IF IsExc(a) THEN a ELSE Matmul(a, b)

\* compose(t_k, compose(t_k-1, ... compose(t_2, t_1)))
RECURSIVE Fold(_, _)
Fold(ts, k) == IF k = 2 THEN Compose(ts[2], ts[1]) ELSE Compose(ts[k], Fold(ts, k - 1))

\* C8: chain(t1, ..., tn) of n >= 2 transforms is the fold
\* compose(tn, compose(tn-1, ... compose(t2, t1))), and when it is a transform
\* and t1's source grid and tn's reference grid are defined, these are its
\* source and reference grids.
C8_ChainIsFold ==
    (op = "chain" /\ Len(args) >= 2 /\ \A i \in 1..Len(args) : IsTransform(args[i])) =>
        /\ ret = Fold(args, Len(args))
        /\ (IsTransform(ret) /\ SrcSpc(args[1]) # None /\ RefSpc(args[Len(args)]) # None) =>
              /\ SrcSpc(ret) = SrcSpc(args[1])
              /\ RefSpc(ret) = RefSpc(args[Len(args)])

\* C9: chain(A) of one transform A is A itself: the same kind, matrices and grids.
C9_ChainOfOne ==
    (op = "chain" /\ Len(args) = 1 /\ IsTransform(args[1])) =>
        /\ ret.kind = args[1].kind
        /\ ret = args[1]

\* C10: inverse() of a Registration or MotionCorrection is a transform of the
\* same kind and length whose matrices are the inverses and whose source and
\* reference grids are swapped, and inverse() of that is the transform again.
C10_Inverse ==
    /\ (op = "inverse" /\ args[1].kind = "Registration") =>
          /\ ret.kind = "Registration"
          /\ MatMul(ret.mat, args[1].mat) = I4
          /\ MatMul(args[1].mat, ret.mat) = I4
          /\ ret.src_spc = args[1].ref_spc
          /\ ret.ref_spc = args[1].src_spc
    /\ (op = "inverse" /\ args[1].kind = "MotionCorrection") =>
          /\ ret.kind = "MotionCorrection"
          /\ Len(ret.transforms) = Len(args[1].transforms)
          /\ \A i \in 1..Len(args[1].transforms) :
                /\ MatMul(ret.transforms[i].mat, args[1].transforms[i].mat) = I4
                /\ MatMul(args[1].transforms[i].mat, ret.transforms[i].mat) = I4
                /\ ret.transforms[i].src_spc = args[1].transforms[i].ref_spc
                /\ ret.transforms[i].ref_spc = args[1].transforms[i].src_spc
    /\ (op = "inverse.inverse" /\ args[1].kind \in {"Registration", "MotionCorrection"}) =>
          ret = args[1]

C10_InverseNonEmptySeries == NonEmptySeries => C10_Inverse

\* a second inverse() follows every inverse() of a series that has a first element
C10_NonEmptyReached ==
    /\ op = "inverse.inverse"
    /\ args[1].kind = "MotionCorrection"
    /\ Src2refWorld(args[1]) = <<T1, R90>>
    /\ SrcSpc(args[1]) = "g1"
    /\ ret = args[1]

\* operand pairings that no composition rule covers: two non-linear transforms,
\* a MotionCorrection as the outer operand of a non-linear transform, and a
\* NonLinearMotionCorrection as the outer operand of a MotionCorrection
UnsupportedPairing(a, b) ==
    \/ IsNonLinear(a) /\ IsNonLinear(b)
    \/ a.kind = "MotionCorrection" /\ IsNonLinear(b)
    \/ a.kind = "NonLinearMotionCorrection" /\ b.kind = "MotionCorrection"

\* every MotionCorrection among the arguments has a first element with grids
SeriesHaveGrids == \A i \in 1..Len(args) :
                      args[i].kind = "MotionCorrection" => SrcSpc(args[i]) # None

\* C14, for series that have grids: args[1] @ args[2] on a pairing that no
\* composition rule covers raises an error that says the composition is not
\* implemented; it returns neither a transform nor None, and it is not
\* evaluated as args[2] @ args[1].
C14_UnsupportedPairingFails ==
    (op = "compose" /\ UnsupportedPairing(args[1], args[2]) /\ SeriesHaveGrids) =>
        /\ IsExc(ret)
        /\ ret.type \in {"NotImplementedError", "RuntimeError"}

\* C14 on two non-linear transforms alone (this holds)
C14_FieldWithFieldFails ==
    (op = "compose" /\ IsNonLinear(args[1]) /\ IsNonLinear(args[2])) =>
        ret = Exc("NotImplementedError", "")

\* a MotionCorrection of length >= 1 as the outer operand of a
\* NonLinearRegistration returns what the operands give in the other order
C14_SwappedReached ==
    /\ Composed("MotionCorrection", "NonLinearRegistration")
    /\ Len(args[1].transforms) >= 1
    /\ args[1].transforms[1].src_spc # None
    /\ ret.kind = "NonLinearMotionCorrection"
    /\ ret = Matmul(args[2], args[1])

(***************************************************************************)
(* Constructor calls: Registration(src2ref, src, ref, convention) and      *)
(* MotionCorrection(mats, src, ref, convention) on valid and invalid       *)
(* arguments, and len() of the object made.                                *)
(***************************************************************************)
M33 == << <<1,0,0>>, <<0,1,0>>, <<0,0,1>> >>

M34 == << <<1,0,0,0>>, <<0,1,0,0>>, <<0,0,1,0>> >>

BadRow == << <<1,0,0,1>>, <<0,1,0,0>>, <<0,0,1,0>>, <<0,0,0,2>> >>

CtorMats == Mats \cup {M33, M34, BadRow}

CtorSeriesMats == {T1, M33, BadRow}

CtorGrids == GridArgs \cup {<<"g1", None>>}

Conventions == {"", "world", "fsl", "FSL", "voxel"}

CtorMatLists == UNION {[1..n -> CtorSeriesMats] : n \in 0..MaxSeriesLen}

ConstructorCalls ==
    {[class |-> "Registration", src2ref |-> M, src |-> g[1], ref |-> g[2], convention |-> c] :
        M \in CtorMats, g \in CtorGrids, c \in Conventions}
    \cup
    {[class |-> "MotionCorrection", mats |-> ms, src |-> g[1], ref |-> g[2], convention |-> c] :
        ms \in CtorMatLists, g \in CtorGrids, c \in Conventions \cup {None}}

InitConstruct == /\ args \in ConstructorCalls
                 /\ ret = [kind |-> "None"]
                 /\ op = "init"
                 /\ DespatchIdle

\* Registration(src2ref, src, ref, convention)
RegistrationNew == /\ op = "init"
                   /\ args.class = "Registration"
                   /\ ret' = Registration(args.src2ref, args.src, args.ref, args.convention)
                   /\ op' = "Registration"
                   /\ UNCHANGED <<args, despatchVars>>

\* MotionCorrection(mats, src, ref, convention)
MotionCorrectionNew == /\ op = "init"
                       /\ args.class = "MotionCorrection"
                       /\ ret' = MotionCorrection(args.mats, args.src, args.ref, args.convention)
                       /\ op' = "MotionCorrection"
                       /\ UNCHANGED <<args, despatchVars>>

\* len() of the object a constructor returned
LenCall == /\ op \in {"Registration", "MotionCorrection"}
           /\ IsTransform(ret)
           /\ ret' = PyLen(ret)
           /\ op' = "len"
           /\ UNCHANGED <<args, despatchVars>>

NextConstruct == RegistrationNew \/ MotionCorrectionNew \/ LenCall

SpecConstruct == InitConstruct /\ [][NextConstruct]_vars

\* a matrix that is not 4x4 or whose last row is not 0 0 0 1
InvalidMatrix(M) == Shape(M) # <<4,4>> \/ M[4] # <<0,0,0,1>>

\* a convention tag that is given and is neither "world" nor "fsl"
UnrecognisedConvention(c) == c \notin {None, ""} /\ Lower(c) \notin {"world", "fsl"}

\* the constructor arguments that have to be refused
InvalidInput(a) ==
    \/ UnrecognisedConvention(a.convention)
    \/ a.class = "Registration" /\ InvalidMatrix(a.src2ref)
    \/ a.class = "MotionCorrection" /\ a.mats = <<>>
    \/ a.class = "MotionCorrection" /\ \E i \in 1..Len(a.mats) : InvalidMatrix(a.mats[i])

\* the constructor raised: a RuntimeError from Registration.__init__, or, inside
\* MotionCorrection.__init__, whatever ended the loop over the matrices first
Refused(r) == /\ IsExc(r)
              /\ args.class = "Registration" => r.type = "RuntimeError"

\* C15: a constructor called with a matrix that is not 4x4, a last row other
\* than 0 0 0 1, an unrecognised convention or an empty list of matrices raises
\* a construction error and returns no object, so that len() of a constructed
\* MotionCorrection is never 0.
C15_InvalidInputRefused ==
    /\ (op \in {"Registration", "MotionCorrection"} /\ InvalidInput(args)) =>
          Refused(ret)
    /\ op = "len" => ret.n >= 1

\* C15 without the empty list of matrices (this holds)
C15_NonEmptyInvalidInputRefused ==
    (op \in {"Registration", "MotionCorrection"} /\ InvalidInput(args)
       /\ ~(args.class = "MotionCorrection" /\ args.mats = <<>>)) =>
          Refused(ret)

\* a MotionCorrection of length 0 has been constructed
C15_EmptySeriesReached ==
    /\ op = "len"
    /\ args.class = "MotionCorrection"
    /\ ret.n = 0

(***************************************************************************)
(* despatch of application_helpers.py.                                     *)
(*                                                                         *)
(* An image array is [kind |-> "ndarray", shape, vox]: a column of Z voxels*)
(* along the third axis, shape (1,1,Z) with vox[z] a number, or a series of*)
(* T such columns, shape (1,1,Z,T) with vox[z][t] a number.  The source    *)
(* and the reference grid are the same grid with the identity as its       *)
(* voxel-to-world matrix, so voxel indices are world coordinates.          *)
(***************************************************************************)
MaxVolumes == 3

MaxZ == 2

MaxCores == 3

\* the value of voxel z (from 1) of volume t (from 0) of the image series
VoxelValue(t, z) == 3 * t + z

Data3D(Z) == [kind |-> "ndarray", shape |-> <<1, 1, Z>>,
              vox |-> [z \in 1..Z |-> VoxelValue(0, z)]]

Data4D(Z, T) == [kind |-> "ndarray", shape |-> <<1, 1, Z, T>>,
                 vox |-> [z \in 1..Z |-> [t \in 1..T |-> VoxelValue(t - 1, z)]]]

\* arrays of two and of five axes
Data2D == [kind |-> "ndarray", shape |-> <<1, 2>>, vox |-> <<1, 2>>]

Data5D == [kind |-> "ndarray", shape |-> <<1, 1, 2, 1, 1>>, vox |-> <<<<1>>, <<2>>>>]

\* _make_iterable: the volumes of the array, first to last; np.moveaxis(data, 3, 0)
\* for four axes, data.reshape(1, *data.shape) otherwise
MakeIterable(data) ==
    IF Len(data.shape) = 4
    THEN [t \in 1..data.shape[4] |-> [z \in 1..data.shape[3] |-> data.vox[z][t]]]
    ELSE <<data.vox>>

\* the values of an array given by its volumes
Values(vols) == {vols[t][z] : t \in 1..Len(vols), z \in 1..Len(vols[1])}

\* data.min() and data.max()
NpMin(vols) == CHOOSE m \in Values(vols) : \A x \in Values(vols) : m <= x

NpMax(vols) == CHOOSE m \in Values(vols) : \A x \in Values(vols) : m >= x

\* a translation by one voxel along the third axis
TZ == << <<1,0,0,0>>, <<0,1,0,0>>, <<0,0,1,1>>, <<0,0,0,1>> >>

\* transform.resolve(src_spc, ref_spc, idx): for each voxel (0, 0, z) of the
\* reference grid the voxel coordinates in the source grid, by the idx-th
\* reference-to-source matrix, and the intensity scale 1
Resolve(transform, src_spc, ref_spc, idx, Z) ==
    IF transform.kind = "MotionCorrection" /\ idx + 1 > Len(transform.transforms)
    THEN Exc("IndexError", "list index out of range")
    ELSE LET inv == IF transform.kind = "MotionCorrection"
                    THEN LinalgInv(transform.transforms[idx + 1].mat)
                    ELSE LinalgInv(transform.mat)
         IN IF IsExc(inv) THEN inv
            ELSE [kind  |-> "tuple",
                  ijk   |-> [z \in 1..Z |-> [k \in 1..3 |-> inv.mat[k][3] * (z - 1) + inv.mat[k][4]]],
                  scale |-> 1]

\* what a spline of the given order adds to the value of voxel k of the volume:
\* a spline of order above 1 goes one above the greatest value of the volume
\* and one below its least value
Overshoot(order, vol, k) ==
    IF order <= 1 THEN 0
    ELSE IF \A j \in 1..Len(vol) : vol[j] <= vol[k] THEN 1
    ELSE IF \A j \in 1..Len(vol) : vol[j] >= vol[k] THEN -1
    ELSE 0

\* scipy.ndimage.map_coordinates(data, ijk, order=order): the value of the
\* volume at each coordinate, 0 (cval) outside the volume
MapCoordinates(vol, ijk, order) ==
    IF order \notin 0..5 THEN Exc("RuntimeError", "spline order not supported")
    ELSE [kind |-> "ndarray",
          vox  |-> [z \in 1..Len(ijk) |->
                      IF ijk[z][1] = 0 /\ ijk[z][2] = 0 /\ ijk[z][3] \in 0..(Len(vol) - 1)
                      THEN vol[ijk[z][3] + 1] + Overshoot(order, vol, ijk[z][3] + 1)
                      ELSE 0]]

\* interpolate_and_scale(idx, data, transform, src_spc, ref_spc, order=order)
InterpolateAndScale(idx, vol, transform, src_spc, ref_spc, order) ==
    LET r == Resolve(transform, src_spc, ref_spc, idx, Len(vol))
    IN IF IsExc(r) THEN r
       ELSE LET interp == MapCoordinates(vol, r.ijk, order)
            IN IF IsExc(interp) THEN interp
               ELSE [kind |-> "ndarray",
                     vox  |-> [z \in 1..Len(interp.vox) |-> interp.vox[z] * r.scale]]

\* np.stack(resamp, axis=3) of T volumes of shape (1,1,Z)
NpStack(vols) ==
    [kind |-> "ndarray", shape |-> <<1, 1, Len(vols[1].vox), Len(vols)>>,
     vox |-> [z \in 1..Len(vols[1].vox) |-> [t \in 1..Len(vols) |-> vols[t].vox[z]]]]

\* np.squeeze of an array of shape (1,1,Z,T): every axis of size 1 goes
NpSqueeze(a) ==
    LET Z == a.shape[3]
        T == a.shape[4]
    IN IF Z = 1 /\ T = 1 THEN [kind |-> "ndarray", shape |-> <<>>, vox |-> a.vox[1][1]]
       ELSE IF T = 1 THEN [kind |-> "ndarray", shape |-> <<Z>>,
                           vox |-> [z \in 1..Z |-> a.vox[z][1]]]
       ELSE IF Z = 1 THEN [kind |-> "ndarray", shape |-> <<T>>, vox |-> a.vox[1]]
       ELSE [kind |-> "ndarray", shape |-> <<Z, T>>, vox |-> a.vox]

\* np.clip without its bounds
Clip1None(x, lo, hi) == x

\* np.clip of one value
Clip1(x, lo, hi) == IF x < lo THEN lo ELSE IF x > hi THEN hi ELSE x

\* np.clip(a, lo, hi) of an array of no, one or two axes
NpClip(a, lo, hi) ==
    [kind |-> "ndarray", shape |-> a.shape,
     vox |-> IF Len(a.shape) = 0 THEN Clip1(a.vox, lo, hi)
             ELSE IF Len(a.shape) = 1
             THEN [i \in 1..a.shape[1] |-> Clip1(a.vox[i], lo, hi)]
             ELSE [i \in 1..a.shape[1] |-> [j \in 1..a.shape[2] |-> Clip1(a.vox[i][j], lo, hi)]]]

(***************************************************************************)
(* The calls of despatch: args is the record of its arguments, with the    *)
(* interpolation order as the one keyword argument passed on.              *)
(***************************************************************************)
\* the matrices of a series of n volumes, no two alike for n <= 3
SeriesFrom(n, k) == [i \in 1..n |-> <<TZ, I4, T1>>[((i + k - 1) % 3) + 1]]

ApplyTransforms ==
    {Registration(M, None, None, "world") : M \in {I4, TZ, T1}}
    \cup
    {MotionCorrection(SeriesFrom(n, k), None, None, "world") : n \in 0..MaxVolumes, k \in 0..2}

ApplyData ==
    {Data2D, Data5D}
    \cup {Data3D(Z) : Z \in 2..MaxZ}
    \cup {Data4D(Z, T) : Z \in 2..MaxZ, T \in 1..MaxVolumes}

Orders == {1, 3, 6}

DespatchCalls ==
    {[data |-> d, transform |-> x, src_spc |-> "g1", ref_spc |-> "g1", cores |-> c, order |-> o] :
        d \in ApplyData, x \in ApplyTransforms, c \in 0..MaxCores, o \in Orders}

InitApply == /\ args \in DespatchCalls
             /\ ret = [kind |-> "None"]
             /\ op = "init"
             /\ DespatchIdle

\* worker(idx, vol) for the volume of index idx (from 0)
Worker(idx) ==
    InterpolateAndScale(idx, MakeIterable(args.data)[idx + 1], args.transform,
                        args.src_spc, args.ref_spc, args.order)

\* the two checks at the head of despatch, None when they pass
Validate(data, transform) ==
    IF Len(data.shape) # 4 /\ Len(data.shape) # 3
    THEN Exc("RuntimeError", "Can only handle 3D/4D data")
    ELSE IF IsExc(PyLen(transform)) THEN PyLen(transform)
    ELSE IF PyLen(transform).n > 1 /\ PyLen(transform).n # data.shape[Len(data.shape)]
    THEN Exc("RuntimeError", "Number of volumes in data does not match transform")
    ELSE [kind |-> "None"]

\* despatch up to the point where the volumes are handed out: the checks,
\* _make_iterable, prepare_cache, worker_args, and mp.Pool(cores) for cores # 1
DespatchEnter ==
    /\ op = "init"
    /\ IF IsExc(Validate(args.data, args.transform))
       THEN /\ ret' = Validate(args.data, args.transform)
            /\ op' = "raised"
            /\ UNCHANGED <<cache, calls, todo, resamp>>
       ELSE /\ cache' = args.ref_spc
            /\ calls' = Append(calls, "prepare_cache")
            /\ todo' = [i \in 1..Len(MakeIterable(args.data)) |-> i - 1]
            /\ IF args.cores = 1
               THEN /\ op' = "sequential"
                    /\ resamp' = <<>>
                    /\ UNCHANGED ret
               ELSE IF args.cores < 1
               THEN /\ op' = "raised"
                    /\ ret' = Exc("ValueError", "Number of processes must be at least 1")
                    /\ UNCHANGED resamp
               ELSE /\ op' = "pool"
                    /\ resamp' = [i \in 1..Len(MakeIterable(args.data)) |-> [kind |-> "None"]]
                    /\ UNCHANGED ret
    /\ UNCHANGED <<args, running, error, completed>>

\* one round of [ worker(*vc) for vc in worker_args ]
SequentialStep ==
    /\ op = "sequential"
    /\ todo # <<>>
    /\ IF IsExc(Worker(Head(todo)))
       THEN /\ ret' = Worker(Head(todo))
            /\ op' = "raised"
            /\ UNCHANGED <<todo, resamp, completed>>
       ELSE /\ resamp' = Append(resamp, Worker(Head(todo)))
            /\ todo' = Tail(todo)
            /\ completed' = Append(completed, Head(todo))
            /\ UNCHANGED <<ret, op>>
    /\ UNCHANGED <<args, cache, calls, running, error>>

\* p.starmap: a free worker of the pool takes the next volume
PoolStart ==
    /\ op = "pool"
    /\ todo # <<>>
    /\ Cardinality(running) < args.cores
    /\ running' = running \cup {Head(todo)}
    /\ todo' = Tail(todo)
    /\ UNCHANGED <<args, ret, op, cache, calls, resamp, error, completed>>

\* the results of starmap with each result put where the next free place is
MapResultSetNextFree(value, idx, r) ==
    [value EXCEPT ![CHOOSE i \in 1..Len(value) :
                       value[i].kind = "None" /\ \A j \in 1..(i - 1) : value[j].kind # "None"] = r]

\* the results of starmap: the result of the volume of index idx goes to place idx
MapResultSet(value, idx, r) == [value EXCEPT ![idx + 1] = r]

\* p.starmap: a worker sends back the result of its volume, or the exception
\* that ended it; the first exception sent back is the one kept
PoolFinish(idx) ==
    /\ op = "pool"
    /\ idx \in running
    /\ running' = running \ {idx}
    /\ completed' = Append(completed, idx)
    /\ IF IsExc(Worker(idx))
       THEN /\ error' = IF error.kind = "None" THEN Worker(idx) ELSE error
            /\ UNCHANGED resamp
       ELSE /\ resamp' = IF error.kind = "None" THEN MapResultSet(resamp, idx, Worker(idx))
                         ELSE resamp
            /\ UNCHANGED error
    /\ UNCHANGED <<args, ret, op, cache, calls, todo>>

\* p.starmap, every volume done and an exception kept: starmap raises it, the
\* with block terminates the pool and despatch is left
PoolRaise ==
    /\ op = "pool"
    /\ todo = <<>>
    /\ running = {}
    /\ error.kind # "None"
    /\ ret' = error
    /\ op' = "raised"
    /\ UNCHANGED <<args, cache, calls, todo, running, resamp, error, completed>>

\* the end of despatch: reset_cache, np.stack, np.squeeze and np.clip to the
\* least and the greatest value of the data
DespatchFinish ==
    /\ \/ op = "sequential" /\ todo = <<>>
       \/ op = "pool" /\ todo = <<>> /\ running = {} /\ error.kind = "None"
    /\ cache' = None
    /\ calls' = Append(calls, "reset_cache")
    /\ ret' = NpClip(NpSqueeze(NpStack(resamp)),
                     NpMin(MakeIterable(args.data)), NpMax(MakeIterable(args.data)))
    /\ op' = "returned"
    /\ UNCHANGED <<args, todo, running, resamp, error, completed>>

NextApply == \/ DespatchEnter
             \/ SequentialStep
             \/ PoolStart
             \/ \E idx \in 0..(MaxVolumes - 1) : PoolFinish(idx)
             \/ PoolRaise
             \/ DespatchFinish

SpecApply == InitApply /\ [][NextApply]_vars

(***************************************************************************)
(* Properties of despatch                                                  *)
(***************************************************************************)
\* the number of volumes of the data
NumVolumes == Len(MakeIterable(args.data))

\* the sub-transform for the volume of index t: the transform itself when it
\* is a Registration, the t-th Registration of a MotionCorrection
SubTransform(x, t) == IF x.kind = "MotionCorrection" THEN x.transforms[t + 1] ELSE x

\* the volume of index t of the array despatch returned (every volume of the
\* model has two voxels or more, so np.squeeze has left the third axis)
OutVolume(a, t) == IF NumVolumes = 1 THEN a.vox
                   ELSE [z \in 1..Len(a.vox) |-> a.vox[z][t + 1]]

\* input volume t resampled on its own with the t-th sub-transform, and
\* clipped to the range of the data
ResampledAlone(t) ==
    LET r == InterpolateAndScale(0, MakeIterable(args.data)[t + 1],
                                 SubTransform(args.transform, t),
                                 args.src_spc, args.ref_spc, args.order)
    IN [z \in 1..Len(r.vox) |->
           Clip1(r.vox[z], NpMin(MakeIterable(args.data)), NpMax(MakeIterable(args.data)))]

\* what despatch returns with cores = 1 when no volume fails
SequentialOutput ==
    NpClip(NpSqueeze(NpStack([t \in 1..NumVolumes |-> Worker(t - 1)])),
           NpMin(MakeIterable(args.data)), NpMax(MakeIterable(args.data)))

\* C11: whatever the number of workers and the order in which the volumes are
\* finished, volume t of the array despatch returns is input volume t resampled
\* with the t-th sub-transform, and the array is the one the call with one
\* worker returns.
C11_VolumeOrder ==
    op = "returned" =>
        /\ \A t \in 0..(NumVolumes - 1) : OutVolume(ret, t) = ResampledAlone(t)
        /\ \A t \in 0..(NumVolumes - 1) : ~IsExc(Worker(t))
        /\ ret = SequentialOutput

\* a pool of three workers has returned three volumes resampled with three
\* different matrices that were finished last volume first
C11_Witness ==
    /\ op = "returned"
    /\ args.cores = 3
    /\ NumVolumes = 3
    /\ args.transform.kind = "MotionCorrection"
    /\ Src2refWorld(args.transform) = <<TZ, I4, T1>>
    /\ completed = <<2, 0, 1>>
    /\ args.order = 3
    /\ OutVolume(ret, 0) # OutVolume(ret, 1)
    /\ OutVolume(ret, 1) # OutVolume(ret, 2)

\* the values of the array despatch was called with
DataValues(data) ==
    IF Len(data.shape) = 4
    THEN {data.vox[z][t] : z \in 1..data.shape[3], t \in 1..data.shape[4]}
    ELSE {data.vox[z] : z \in 1..data.shape[3]}

\* a value lies between the least and the greatest value of the data
InRange(v) == /\ \E x \in DataValues(args.data) : x <= v
              /\ \E x \in DataValues(args.data) : v <= x

\* C12: every value of the array despatch returns lies between the least and
\* the greatest value of the array it was called with, whatever the transform,
\* the interpolation order and the number of workers, and a resampled value
\* that already lies in that range is returned as it is.
C12_OutputClipped ==
    op = "returned" =>
        \A t \in 0..(NumVolumes - 1) : \A z \in 1..Len(OutVolume(ret, t)) :
            /\ InRange(OutVolume(ret, t)[z])
            /\ InRange(Worker(t).vox[z]) => OutVolume(ret, t)[z] = Worker(t).vox[z]

\* a pool has returned an array in which one resampled value was above the
\* greatest value of the data, one below the least, and one inside the range
C12_Witness ==
    /\ op = "returned"
    /\ args.cores = 2
    /\ NumVolumes = 3
    /\ args.order = 3
    /\ \E z \in 1..Len(Worker(2).vox) : Worker(2).vox[z] > NpMax(MakeIterable(args.data))
    /\ \E z \in 1..Len(Worker(0).vox) : Worker(0).vox[z] < NpMin(MakeIterable(args.data))
    /\ \E z \in 1..Len(Worker(1).vox) :
          /\ InRange(Worker(1).vox[z])
          /\ OutVolume(ret, 1)[z] = Worker(1).vox[z]
          /\ Worker(1).vox[z] \notin {NpMin(MakeIterable(args.data)), NpMax(MakeIterable(args.data))}

\* the number of axes of the data
Rank == Len(args.data.shape)

\* the number of volumes the data counts for: the size of the fourth axis, and
\* one for data of three axes
VolumeCount == IF Rank = 4 THEN args.data.shape[4] ELSE 1

\* the calls that are to be refused: data of neither three nor four axes, or a
\* transform of a length above 1 that is not the number of volumes
MustReject == \/ Rank \notin {3, 4}
              \/ PyLen(args.transform).n > 1 /\ PyLen(args.transform).n # VolumeCount

\* despatch raised one of its two errors before prepare_cache and before any volume
Rejected == /\ op = "raised"
            /\ ret.type = "RuntimeError"
            /\ ret.msg \in {"Can only handle 3D/4D data",
                            "Number of volumes in data does not match transform"}
            /\ calls = <<>>
            /\ completed = <<>>

\* C13: despatch refuses, before any volume is resampled, data of neither three
\* nor four axes and a transform of a length above 1 that differs from the
\* number of volumes, data of three axes being one volume; it does not refuse
\* a transform of length 1.  (Stated for calls with one worker or more.)
C13_ValidationRejects ==
    (op # "init" /\ args.cores >= 1) =>
        /\ MustReject => Rejected
        /\ (Rank \in {3, 4} /\ PyLen(args.transform).n = 1) => ~Rejected

\* C13 on data of four axes and on data of neither three nor four (this holds)
C13_ValidationRejects4D ==
    (op # "init" /\ Rank # 3) =>
        /\ MustReject => Rejected
        /\ (Rank = 4 /\ PyLen(args.transform).n = 1) => ~Rejected

\* despatch has returned an array for data of three axes and a series of two
C13_SeriesOn3DReached ==
    /\ op = "returned"
    /\ Rank = 3
    /\ args.transform.kind = "MotionCorrection"
    /\ PyLen(args.transform).n = 2
    /\ args.data.shape[3] = 2

\* a volume has been handed to worker(): taken from worker_args, or the first
\* one raised in the sequential loop
TaskStarted == \/ running # {}
               \/ completed # <<>>
               \/ op = "raised" /\ calls # <<>> /\ args.cores = 1

\* prepare_cache was called once, and before any volume was handed out
PreparedOnce == TaskStarted => (calls # <<>> /\ calls[1] = "prepare_cache"
                                /\ \A i \in 2..Len(calls) : calls[i] # "prepare_cache")

\* despatch has given control back to its caller
Ended == op \in {"returned", "raised"}

\* the transform has a sub-transform for every volume of the data
HasSubTransforms == \/ args.transform.kind = "Registration"
                    \/ Len(args.transform.transforms) >= NumVolumes

\* C16: in a call of despatch that reaches prepare_cache, prepare_cache is
\* called once before any volume is handed out, and when despatch ends, by
\* returning or by the exception of a volume, reset_cache has been called and
\* the cache is empty.  (Stated for calls with one worker or more and a
\* sub-transform for every volume.)
C16_CacheReset ==
    (args.cores >= 1 /\ HasSubTransforms) =>
        /\ PreparedOnce
        /\ (Ended /\ calls # <<>>) =>
              /\ calls = <<"prepare_cache", "reset_cache">>
              /\ cache = None

\* C16 for the calls that return (this holds)
C16_CacheResetOnReturn ==
    /\ PreparedOnce
    /\ op = "returned" => (calls = <<"prepare_cache", "reset_cache">> /\ cache = None)
    /\ (op \in {"sequential", "pool"}) => (calls = <<"prepare_cache">> /\ cache = args.ref_spc)

\* the interpolation failed in the workers of a pool, and despatch ended with
\* the cache still in place
C16_CacheLeakReached ==
    /\ op = "raised"
    /\ args.cores = 2
    /\ HasSubTransforms
    /\ Len(completed) = 2
    /\ ret = Exc("RuntimeError", "spline order not supported")
    /\ cache = args.ref_spc
    /\ calls = <<"prepare_cache">>

====
